---- MODULE Spec2Model ----
(***************************************************************************)
(* Model of src/main.rs: an axum server holding an in-memory user list     *)
(* (Arc<Mutex<Vec<UserData>>>) and a process-wide id counter               *)
(* (static mut NEXT_ID: u32).  Every in-flight request is one task; a      *)
(* handler is modelled statement by statement so that the atomicity the    *)
(* mutex gives is something the model checker decides.                     *)
(***************************************************************************)
EXTENDS Integers, Sequences, FiniteSets, TLC

VARIABLES
    users,            \* the Vec<UserData> behind the mutex (main.rs:38)
    NEXT_ID,          \* static mut NEXT_ID: u32 (main.rs:14)
    lock,             \* the task holding the mutex, or NoTask
    poisoned,         \* the mutex's poison flag (a holder panicked)
    overflow_checks,  \* build profile: does `+=` panic on overflow
    pc,               \* per task: the statement it executes next
    req,              \* per task: the request it was given last
    local,            \* per task: the handler's arguments and locals
    resp,             \* per task: the response of its last request
    nreq,             \* requests accepted so far
    base,             \* history: creates served before the modelled window
    issued,           \* history: ids returned by add_user, in order
    created,          \* history: the records pushed so far, oldest first
    deleted,          \* history: the deletes that returned success, oldest first
    seen,             \* history: per task, ids returned by overlapping add_user calls
    serial,           \* history: the store after running the completed handlers one by one
    expect,           \* history: per task, the response of its handler run alone on `serial`
    pre,              \* history: per task, the store when it took the lock
    raced             \* history: per task, its id if an overlapping delete_user removed it

vars == <<users, NEXT_ID, lock, poisoned, overflow_checks, pc, req, local, resp,
          nreq, base, issued, created, deleted, seen, serial, expect, pre, raced>>

-----------------------------------------------------------------------------
(* Bounds of the model.                                                    *)

NumTasks == 2
MaxRequests == 4

Tasks == 1..NumTasks
NoTask == 0

-----------------------------------------------------------------------------
(* u32.  TLC's integers are 32-bit signed, so a u32 is kept as two 16-bit  *)
(* halves <<hi, lo>> with value hi * 65536 + lo; the arithmetic below is   *)
(* exact for the whole range 0 .. 4294967295.                              *)

Half == 65536

U32(n) == <<n \div Half, n % Half>>

U32Max == <<Half - 1, Half - 1>>

\* x + 1 as a mathematical integer: it may leave the u32 range (hi = Half).
Succ(x) == IF x[2] < Half - 1 THEN <<x[1], x[2] + 1>> ELSE <<x[1] + 1, 0>>

\* u32::wrapping_add(x, 1): what `+= 1` does with overflow checks off.
WrappingSucc(x) == IF x = U32Max THEN U32(0) ELSE Succ(x)

RECURSIVE Plus(_, _)
Plus(x, n) == IF n = 0 THEN x ELSE Plus(Succ(x), n - 1)

Less(x, y) == x[1] < y[1] \/ (x[1] = y[1] /\ x[2] < y[2])

-----------------------------------------------------------------------------
(* Text.  A text is a TLC string; digits are handled one character at a    *)
(* time, as format!("{}") and str::parse::<u32> do.                        *)

Digits == <<"0", "1", "2", "3", "4", "5", "6", "7", "8", "9">>

DigitValue(c) == CHOOSE d \in 0..9 : Digits[d + 1] = c

IsDigit(c) == \E d \in 0..9 : Digits[d + 1] = c

\* <u32 as Display>::fmt: the decimal digits, most significant first.
RECURSIVE U32ToString(_)
U32ToString(x) ==
    IF x[1] = 0 /\ x[2] < 10 THEN Digits[x[2] + 1]
    ELSE LET qh  == x[1] \div 10
             mid == (x[1] % 10) * Half + x[2]
         IN  U32ToString(<<qh, mid \div 10>>) \o Digits[(mid % 10) + 1]

\* <u32 as FromStr>::from_str on a path segment given as its characters:
\* "ok" with the value, or "err" (empty, a non-digit, or a value above u32::MAX).
RECURSIVE ParseDigits(_, _)
ParseDigits(seg, acc) ==
    IF seg = <<>> THEN [ok |-> TRUE, value |-> acc]
    ELSE IF ~IsDigit(Head(seg)) THEN [ok |-> FALSE, value |-> U32(0)]
    ELSE LET lo == acc[2] * 10 + DigitValue(Head(seg))
             hi == acc[1] * 10 + (lo \div Half)
         IN  IF hi >= Half THEN [ok |-> FALSE, value |-> U32(0)]
             ELSE ParseDigits(Tail(seg), <<hi, lo % Half>>)

ParseU32(seg) ==
    IF seg = <<>> THEN [ok |-> FALSE, value |-> U32(0)]
    ELSE ParseDigits(seg, U32(0))

-----------------------------------------------------------------------------
(* Requests, as the router hands them to the extractors.                   *)

\* struct UserData { id: u32, name: String, age: u32 }
UserData(id, name, age) == [id |-> id, name |-> name, age |-> age]

\* JSON bodies of POST /users: the keys present and their values.
Bodies ==
    { [keys |-> {"name", "age"},       id |-> U32(0), name |-> "Alice", age |-> U32(30)],
      [keys |-> {"id", "name", "age"}, id |-> U32(0), name |-> "Bob",   age |-> U32(25)],
      [keys |-> {"name"},              id |-> U32(0), name |-> "Carol", age |-> U32(0)] }

\* A decoder with #[serde(default)] on the whole struct: only name is required.
DecodeLenient(body) ==
    [ok |-> "name" \in body.keys,
     value |-> UserData(IF "id" \in body.keys THEN body.id ELSE U32(0),
                        body.name, body.age)]

\* Json<UserData>: name and age are required, #[serde(default)] id is 0 when absent.
DecodeUserData(body) ==
    IF {"name", "age"} \subseteq body.keys
    THEN [ok |-> TRUE,
          value |-> UserData(IF "id" \in body.keys THEN body.id ELSE U32(0),
                             body.name, body.age)]
    ELSE [ok |-> FALSE, value |-> UserData(U32(0), "", U32(0))]

\* Path segments of DELETE /users/:id, as their characters.
Segments ==
    { <<"0">>, <<"4", "2", "9", "4", "9", "6", "7", "2", "9", "5">>,
      <<"4", "2", "9", "4", "9", "6", "7", "2", "9", "6">>, <<"x">> }

\* Path parameters of GET /greet/:name.
GreetNames == {"Eve"}

\* What the extractors make of each request the router can be given.
ParsedSegments == [seg \in Segments |-> ParseU32(seg)]

DecodedBodies == [body \in Bodies |-> DecodeUserData(body)]

NoBody == [keys |-> {}, id |-> U32(0), name |-> "", age |-> U32(0)]

\* A request: its route and what the extractors are given.
Request(route, body, seg) == [route |-> route, body |-> body, seg |-> seg]

NoRequest == Request("none", NoBody, <<>>)

-----------------------------------------------------------------------------
(* Responses.                                                              *)

\* A response: its status, the kind of its body, and the body: a plain text
\* ("text"), a JSON object {error: text} ("error"), one JSON user ("user") or a
\* JSON array of users ("users").
Response(status, kind, text, json) ==
    [status |-> status, kind |-> kind, text |-> text, json |-> json]

NoResponse == Response(0, "none", "", <<>>)

\* A handler that panics sends nothing: the connection's task unwinds.
Fault == Response(0, "panic", "", <<>>)

\* What the extractors answer when decoding fails (the handler never runs).
Rejected(what) == Response(400, "rejected", what, <<>>)

HelloText == "Hello, world!"

GreetText(name) == "Hello, " \o name \o "!"

DeletedText(id) == "User with ID " \o U32ToString(id) \o " successfully deleted."

NotFoundText(id) == "User with ID " \o U32ToString(id) \o " not found."

-----------------------------------------------------------------------------
(* Handler locals and the store.                                           *)

NoLocal == [payload |-> UserData(U32(0), "", U32(0)), id |-> U32(0), initial_len |-> 0]

Store(us, next, poison) == [users |-> us, next |-> next, poisoned |-> poison]

NoStore == Store(<<>>, U32(0), FALSE)

\* A push at the wrong end of the vector.
PushFront(us, user) == <<user>> \o us

\* An assignment that leaves the id of the request body in place.
KeepBodyId(payload, next) == payload

\* payload.id = NEXT_ID
AssignId(payload, next) == [payload EXCEPT !.id = next]

\* A list that moves the records out of the vector (mem::take) instead of
\* cloning them.
TakeOf(us) == [returned |-> us, left |-> <<>>]

\* users.clone(): an independent copy is returned, the vector stays as it is.
CloneOf(us) == [returned |-> us, left |-> us]

\* Vec::push(user)
Push(us, user) == Append(us, user)

\* A retain whose predicate is inverted: it keeps the matching records.
RetainMatching(us, id) == SelectSeq(us, LAMBDA user : user.id = id)

\* Vec::retain(|user| user.id != id)
Retain(us, id) == SelectSeq(us, LAMBDA user : user.id # id)

\* A handler that enters its critical section without waiting for the mutex.
LockNeverWaits == TRUE

\* Mutex::lock returns once no other thread holds the mutex.
LockFree == lock = NoTask

\* A lock() whose poison error is discarded instead of unwrapped.
IgnoresPoison(p) == FALSE

\* lock().unwrap() panics exactly when the mutex is poisoned.
PanicsOnPoison(p) == p

\* `NEXT_ID += 1` overflows exactly at u32::MAX.
Overflows(x) == x = U32Max

-----------------------------------------------------------------------------
(* The handlers run alone, start to end, on a store: the reference the     *)
(* interleaved execution is compared with.                                 *)

Outcome(store, response) == [store |-> store, resp |-> response]

SerialAdd(s, payload) ==
    IF s.poisoned THEN Outcome(s, Fault)
    ELSE IF Overflows(s.next) /\ overflow_checks
    THEN Outcome(Store(s.users, s.next, TRUE), Fault)
    ELSE LET user == [payload EXCEPT !.id = s.next]
         IN  Outcome(Store(Append(s.users, user), WrappingSucc(s.next), FALSE),
                     Response(200, "user", "", <<user>>))

SerialList(s) ==
    IF s.poisoned THEN Outcome(s, Fault)
    ELSE Outcome(s, Response(200, "users", "", s.users))

SerialDelete(s, id) ==
    IF s.poisoned THEN Outcome(s, Fault)
    ELSE IF \E i \in 1..Len(s.users) : s.users[i].id = id
    THEN Outcome(Store(Retain(s.users, id), s.next, FALSE),
                 Response(200, "text", DeletedText(id), <<>>))
    ELSE Outcome(s, Response(404, "error", NotFoundText(id), <<>>))

-----------------------------------------------------------------------------
(* Initial states.  Fresh: the process has just started (main.rs:14, 38).  *)
(* LongRun: the same process after 4294967295 creates, every record but    *)
(* possibly the first deleted again; no counter overflow has happened yet. *)

Alice0 == UserData(U32(0), "Alice", U32(30))

Fresh == users = <<>> /\ NEXT_ID = U32(0)

LongRun == users \in {<<>>, <<Alice0>>} /\ NEXT_ID = U32Max

Init ==
    /\ Fresh \/ LongRun
    /\ lock = NoTask
    /\ poisoned = FALSE
    /\ overflow_checks \in BOOLEAN
    /\ pc = [t \in Tasks |-> "idle"]
    /\ req = [t \in Tasks |-> NoRequest]
    /\ local = [t \in Tasks |-> NoLocal]
    /\ resp = [t \in Tasks |-> NoResponse]
    /\ nreq = 0
    /\ base = NEXT_ID
    /\ issued = <<>>
    /\ created = users
    /\ deleted = <<>>
    /\ seen = [t \in Tasks |-> {}]
    /\ serial = Store(users, NEXT_ID, FALSE)
    /\ expect = [t \in Tasks |-> NoResponse]
    /\ pre = [t \in Tasks |-> NoStore]
    /\ raced = [t \in Tasks |-> {}]

-----------------------------------------------------------------------------
(* The router: one task per accepted request.                              *)

AddPcs == {"add_lock", "add_assign", "add_incr", "add_push", "add_ret"}

DelPcs == {"del_lock", "del_len", "del_retain", "del_check"}

ListPcs == {"list_lock", "list_clone"}

\* Tasks are interchangeable: a new request takes the first idle one.
Accept(t) ==
    /\ pc[t] = "idle"
    /\ \A u \in Tasks : u < t => pc[u] # "idle"
    /\ nreq < MaxRequests
    /\ nreq' = nreq + 1

\* A request answered without the store: nothing of the store or its history moves.
Answer(t, rq, r) ==
    /\ req' = [req EXCEPT ![t] = rq]
    /\ resp' = [resp EXCEPT ![t] = r]
    /\ expect' = [expect EXCEPT ![t] = r]
    /\ UNCHANGED <<users, NEXT_ID, lock, poisoned, overflow_checks, pc, local,
                   base, issued, created, deleted, seen, serial, pre, raced>>

\* A request routed to a handler that takes the lock first.
Enter(t, rq, label, loc) ==
    /\ req' = [req EXCEPT ![t] = rq]
    /\ pc' = [pc EXCEPT ![t] = label]
    /\ local' = [local EXCEPT ![t] = loc]
    /\ resp' = [resp EXCEPT ![t] = NoResponse]
    /\ expect' = [expect EXCEPT ![t] = NoResponse]
    /\ seen' = [seen EXCEPT ![t] = {}]
    /\ raced' = [raced EXCEPT ![t] = {}]
    /\ UNCHANGED <<users, NEXT_ID, lock, poisoned, overflow_checks,
                   base, issued, created, deleted, serial, pre>>

\* GET /
hello_world(t) ==
    /\ Accept(t)
    /\ Answer(t, Request("GET /", NoBody, <<>>), Response(200, "text", HelloText, <<>>))

\* GET /greet/:name
greet_person(t) ==
    /\ Accept(t)
    /\ \E name \in GreetNames :
          Answer(t, Request("GET /greet/" \o name, NoBody, <<>>),
                 Response(200, "text", GreetText(name), <<>>))

\* POST /users with a body Json<UserData> rejects.
reject_body(t) ==
    /\ Accept(t)
    /\ \E body \in Bodies :
          /\ ~DecodedBodies[body].ok
          /\ Answer(t, Request("POST /users", body, <<>>), Rejected("body"))

\* DELETE /users/:id with a segment Path<u32> rejects.
reject_path(t) ==
    /\ Accept(t)
    /\ \E seg \in Segments :
          /\ ~ParsedSegments[seg].ok
          /\ Answer(t, Request("DELETE /users/:id", NoBody, seg), Rejected("path"))

\* POST /users
post_users(t) ==
    /\ Accept(t)
    /\ \E body \in Bodies :
          /\ DecodedBodies[body].ok
          /\ Enter(t, Request("POST /users", body, <<>>), "add_lock",
                   [NoLocal EXCEPT !.payload = DecodedBodies[body].value])

\* GET /users
get_users(t) ==
    /\ Accept(t)
    /\ Enter(t, Request("GET /users", NoBody, <<>>), "list_lock", NoLocal)

\* DELETE /users/:id
delete_users(t) ==
    /\ Accept(t)
    /\ \E seg \in Segments :
          /\ ParsedSegments[seg].ok
          /\ Enter(t, Request("DELETE /users/:id", NoBody, seg), "del_lock",
                   [NoLocal EXCEPT !.id = ParsedSegments[seg].value])

-----------------------------------------------------------------------------
(* Statements shared by the three store handlers.                          *)

\* The handler returns (or unwinds): its guard is dropped, the task is answered,
\* and the history records the same handler run alone.
Complete(t, r, out) ==
    /\ pc' = [pc EXCEPT ![t] = "idle"]
    /\ local' = [local EXCEPT ![t] = NoLocal]
    /\ resp' = [resp EXCEPT ![t] = r]
    /\ lock' = NoTask
    /\ pre' = [pre EXCEPT ![t] = NoStore]
    /\ serial' = out.store
    /\ expect' = [expect EXCEPT ![t] = out.resp]

\* users_state.lock().unwrap(): blocks while the mutex is held; on a poisoned
\* mutex lock() is an Err and unwrap panics, dropping the guard it carried.
Lock(t, from, to, out) ==
    /\ pc[t] = from
    /\ LockFree
    /\ IF PanicsOnPoison(poisoned)
       THEN /\ Complete(t, Fault, out)
            /\ seen' = [seen EXCEPT ![t] = {}]
            /\ raced' = [raced EXCEPT ![t] = {}]
            /\ UNCHANGED <<users, NEXT_ID, poisoned, issued, created, deleted>>
       ELSE /\ lock' = t
            /\ pc' = [pc EXCEPT ![t] = to]
            /\ pre' = [pre EXCEPT ![t] = Store(users, NEXT_ID, poisoned)]
            /\ UNCHANGED <<users, NEXT_ID, poisoned, local, resp, issued, created, deleted,
                           seen, serial, expect, raced>>
    /\ UNCHANGED <<overflow_checks, req, nreq, base>>

\* A statement inside a handler: the task moves on to the next one.
Goto(t, from, to) == pc[t] = from /\ pc' = [pc EXCEPT ![t] = to]

-----------------------------------------------------------------------------
(* add_user (main.rs:72-90)                                                *)

\* let mut users = users_state.lock().unwrap();
add_lock(t) == Lock(t, "add_lock", "add_assign", SerialAdd(serial, local[t].payload))

\* payload.id = NEXT_ID;
add_assign(t) ==
    /\ Goto(t, "add_assign", "add_incr")
    /\ local' = [local EXCEPT ![t].payload = AssignId(local[t].payload, NEXT_ID)]
    /\ UNCHANGED <<users, NEXT_ID, lock, poisoned, overflow_checks, req, resp, nreq,
                   base, issued, created, deleted, seen, serial, expect, pre, raced>>

\* NEXT_ID += 1;  with overflow checks on, u32::MAX + 1 panics: the guard is
\* dropped while unwinding, which poisons the mutex.
add_incr(t) ==
    /\ pc[t] = "add_incr"
    /\ IF Overflows(NEXT_ID) /\ overflow_checks
       THEN /\ Complete(t, Fault, SerialAdd(serial, local[t].payload))
            /\ poisoned' = TRUE
            /\ seen' = [seen EXCEPT ![t] = {}]
            /\ UNCHANGED <<users, NEXT_ID, issued, created, deleted>>
       ELSE /\ pc' = [pc EXCEPT ![t] = "add_push"]
            /\ NEXT_ID' = WrappingSucc(NEXT_ID)
            /\ UNCHANGED <<users, lock, poisoned, local, resp, issued, created, deleted,
                           seen, serial, expect, pre>>
    /\ UNCHANGED <<overflow_checks, req, nreq, base, raced>>

\* users.push(payload.clone());
add_push(t) ==
    /\ Goto(t, "add_push", "add_ret")
    /\ users' = Push(users, local[t].payload)
    /\ UNCHANGED <<NEXT_ID, lock, poisoned, overflow_checks, req, local, resp, nreq,
                   base, issued, created, deleted, seen, serial, expect, pre, raced>>

\* println!(..); Json(payload)
add_ret(t) ==
    /\ pc[t] = "add_ret"
    /\ Complete(t, Response(200, "user", "", <<local[t].payload>>),
                SerialAdd(serial, local[t].payload))
    /\ issued' = Append(issued, local[t].payload.id)
    /\ created' = Append(created, local[t].payload)
    /\ seen' = [u \in Tasks |->
                  IF u = t THEN {}
                  ELSE IF pc[u] \in AddPcs THEN seen[u] \cup {local[t].payload.id}
                  ELSE seen[u]]
    /\ UNCHANGED <<users, NEXT_ID, poisoned, overflow_checks, req, nreq, base, deleted,
                   raced>>

-----------------------------------------------------------------------------
(* list_users (main.rs:93-99)                                              *)

\* let users = users_state.lock().unwrap();
list_lock(t) == Lock(t, "list_lock", "list_clone", SerialList(serial))

\* Json(users.clone())
list_clone(t) ==
    /\ pc[t] = "list_clone"
    /\ Complete(t, Response(200, "users", "", CloneOf(users).returned), SerialList(serial))
    /\ users' = CloneOf(users).left
    /\ UNCHANGED <<NEXT_ID, poisoned, overflow_checks, req, nreq, base, issued,
                   created, deleted, seen, raced>>

-----------------------------------------------------------------------------
(* delete_user (main.rs:102-120)                                           *)

\* let mut users = users_state.lock().unwrap();
del_lock(t) == Lock(t, "del_lock", "del_len", SerialDelete(serial, local[t].id))

\* let initial_len = users.len();
del_len(t) ==
    /\ Goto(t, "del_len", "del_retain")
    /\ local' = [local EXCEPT ![t].initial_len = Len(users)]
    /\ UNCHANGED <<users, NEXT_ID, lock, poisoned, overflow_checks, req, resp, nreq,
                   base, issued, created, deleted, seen, serial, expect, pre, raced>>

\* users.retain(|user| user.id != id);
del_retain(t) ==
    /\ Goto(t, "del_retain", "del_check")
    /\ users' = Retain(users, local[t].id)
    /\ UNCHANGED <<NEXT_ID, lock, poisoned, overflow_checks, req, local, resp, nreq,
                   base, issued, created, deleted, seen, serial, expect, pre, raced>>

\* if users.len() < initial_len { Ok(..) } else { Err((NOT_FOUND, Json(..))) }
del_check(t) ==
    /\ pc[t] = "del_check"
    /\ IF Len(users) < local[t].initial_len
       THEN /\ Complete(t, Response(200, "text", DeletedText(local[t].id), <<>>),
                        SerialDelete(serial, local[t].id))
            /\ deleted' = Append(deleted, [id |-> local[t].id, at |-> Len(created)])
            /\ raced' = [u \in Tasks |->
                           IF u = t THEN {}
                           ELSE IF pc[u] \in DelPcs /\ local[u].id = local[t].id
                                THEN raced[u] \cup {local[t].id}
                           ELSE raced[u]]
       ELSE /\ Complete(t, Response(404, "error", NotFoundText(local[t].id), <<>>),
                        SerialDelete(serial, local[t].id))
            /\ raced' = [raced EXCEPT ![t] = {}]
            /\ UNCHANGED deleted
    /\ UNCHANGED <<users, NEXT_ID, poisoned, overflow_checks, req, nreq, base, issued,
                   created, seen>>

-----------------------------------------------------------------------------

Next ==
    \E t \in Tasks :
        \/ hello_world(t)
        \/ greet_person(t)
        \/ reject_body(t)
        \/ reject_path(t)
        \/ post_users(t)
        \/ get_users(t)
        \/ delete_users(t)
        \/ add_lock(t)
        \/ add_assign(t)
        \/ add_incr(t)
        \/ add_push(t)
        \/ add_ret(t)
        \/ list_lock(t)
        \/ list_clone(t)
        \/ del_lock(t)
        \/ del_len(t)
        \/ del_retain(t)
        \/ del_check(t)

Spec == Init /\ [][Next]_vars

\* The statements of the store handlers that task t can execute.
Step(t) ==
    \/ add_lock(t) \/ add_assign(t) \/ add_incr(t) \/ add_push(t) \/ add_ret(t)
    \/ list_lock(t) \/ list_clone(t)
    \/ del_lock(t) \/ del_len(t) \/ del_retain(t) \/ del_check(t)

\* The runtime keeps polling every spawned handler task, and a handler that
\* can take the mutex is not left waiting forever; requests themselves may
\* stop arriving at any time.
FairSpec == Spec /\ \A t \in Tasks : WF_vars(Step(t))

-----------------------------------------------------------------------------
(* Vocabulary of the properties.                                           *)

\* The statements of add_user executed with the guard in hand.
InAdd == {"add_assign", "add_incr", "add_push", "add_ret"}

\* Task t takes the step that answers its request from statement `label`.
Returns(t, label) == pc[t] = label /\ pc'[t] = "idle"

Present(us, id) == \E i \in 1..Len(us) : us[i].id = id

RemoveAt(us, i) == SubSeq(us, 1, i - 1) \o SubSeq(us, i + 1, Len(us))

\* Record k of the creation history has not been the target of a later successful delete.
Survives(k) ==
    ~\E d \in 1..Len(deleted) : deleted[d].id = created[k].id /\ deleted[d].at >= k

RECURSIVE LiveFrom(_)
LiveFrom(k) ==
    IF k > Len(created) THEN <<>>
    ELSE (IF Survives(k) THEN <<created[k]>> ELSE <<>>) \o LiveFrom(k + 1)

\* The created and not yet deleted records, in the order of their creation.
LiveInCreationOrder == LiveFrom(1)

-----------------------------------------------------------------------------
(* C1: concurrent add_user requests never get the same id, because the     *)
(* read of NEXT_ID, its increment and the push of one request are never    *)
(* interleaved with those of another: at most one task is inside these     *)
(* statements, the id a task holds was not returned to any add_user call   *)
(* overlapping it, and when it returns its record is the last pushed and   *)
(* the counter is its id plus one.                                         *)
C1_ConcurrentCreatesGetDistinctIds ==
    /\ Cardinality({t \in Tasks : pc[t] \in InAdd}) <= 1
    /\ \A t \in Tasks :
          pc[t] \in {"add_incr", "add_push", "add_ret"}
              => local[t].payload.id \notin seen[t]
    /\ \A t \in Tasks :
          pc[t] = "add_ret"
              => /\ Len(users) > 0
                 /\ users[Len(users)] = local[t].payload
                 /\ NEXT_ID = WrappingSucc(local[t].payload.id)

\* An add_user call about to return while another add_user call, in flight
\* at the same time, has already returned its id.
C1_Witness == \E t \in Tasks : pc[t] = "add_ret" /\ seen[t] # {}

(* C2: the ids handed out since the process started are 0, 1, .., N-1 in   *)
(* this order: the i-th create of the window returns base + i - 1, base    *)
(* being the number of creates served before it.                           *)
C2_IssuedIdsAreZeroToN ==
    \A i \in 1..Len(issued) : issued[i] = Plus(base, i - 1)

(* C3: an id once assigned is never assigned again: no id of the window    *)
(* is below base (those were assigned before it) and no two are equal.     *)
C3_NoIdAssignedTwice ==
    \A i \in 1..Len(issued) :
        /\ ~Less(issued[i], base)
        /\ \A j \in 1..Len(issued) : i # j => issued[i] # issued[j]

(* C4: the counter changes only in a create, by exactly +1, and never      *)
(* goes down; list, delete, the greetings and rejected requests leave it.  *)
C4_CounterOnlyStepsByOne ==
    [][ /\ NEXT_ID' # NEXT_ID
            => NEXT_ID' = Succ(NEXT_ID) /\ \E t \in Tasks : pc[t] = "add_incr"
        /\ ~Less(NEXT_ID', NEXT_ID)
        /\ \A t \in Tasks :
              /\ Returns(t, "add_ret") => NEXT_ID' = Succ(pre[t].next)
              /\ Returns(t, "list_clone") \/ Returns(t, "del_check")
                    => NEXT_ID' = pre[t].next ]_vars

(* C5: a delete of a present id answers 200 with the message naming the    *)
(* id, removes exactly one record, the one with that id, and leaves the    *)
(* other records, their order and the counter as they were.                *)
C5_DeletePresentRemovesExactlyOne ==
    [][ \A t \in Tasks :
          Returns(t, "del_check") /\ Present(pre[t].users, local[t].id)
              => /\ resp'[t] = Response(200, "text", DeletedText(local[t].id), <<>>)
                 /\ \E i \in 1..Len(pre[t].users) :
                       /\ pre[t].users[i].id = local[t].id
                       /\ users' = RemoveAt(pre[t].users, i)
                 /\ NEXT_ID' = pre[t].next ]_vars

(* C6: a delete of an id that is not present answers 404 with the JSON     *)
(* error naming the id and leaves the record list and the counter exactly  *)
(* as they were when it took the lock.                                     *)
C6_DeleteAbsentChangesNothing ==
    [][ \A t \in Tasks :
          Returns(t, "del_check") /\ ~Present(pre[t].users, local[t].id)
              => /\ resp'[t] = Response(404, "error", NotFoundText(local[t].id), <<>>)
                 /\ users' = pre[t].users
                 /\ NEXT_ID' = pre[t].next ]_vars

\* A delete about to answer not-found for an id that an earlier delete removed,
\* with other records in the list.
C6_Witness ==
    \E t \in Tasks :
        /\ pc[t] = "del_check"
        /\ ~(Len(users) < local[t].initial_len)
        /\ users # <<>>
        /\ \E d \in 1..Len(deleted) : deleted[d].id = local[t].id

(* C7: once a delete(id) has returned success, no later delete(id)         *)
(* returns success: no id occurs twice among the successful deletes.       *)
C7_NoSecondSuccessfulDelete ==
    \A i, j \in 1..Len(deleted) : i # j => deleted[i].id # deleted[j].id

(* C8: list answers 200 with exactly the live records in the order of      *)
(* their creation, and between requests the vector is that sequence: a     *)
(* delete does not reorder what remains, a create adds at the end.         *)
C8_ListIsLiveInCreationOrder ==
    [][ /\ lock = NoTask => users = LiveInCreationOrder
        /\ \A t \in Tasks :
              Returns(t, "list_clone")
                  => resp'[t] = Response(200, "users", "", LiveInCreationOrder) ]_vars

\* A list answered with records in it after two creates and a successful delete.
C8_Witness ==
    \E t \in Tasks :
        /\ pc[t] = "idle"
        /\ resp[t].kind = "users"
        /\ resp[t].json # <<>>
        /\ Len(created) >= 2
        /\ deleted # <<>>

(* C9: create and delete are atomic for every observer: whenever the lock  *)
(* is free, and whenever a handler reads the store, the record list, the   *)
(* counter and the poison flag are those reached by running the completed  *)
(* handlers one after the other, and every response is the one its handler *)
(* gives in that serial run.                                               *)
C9_EveryObservationIsSerial ==
    LET InSync == /\ users = serial.users
                  /\ NEXT_ID = serial.next
                  /\ poisoned = serial.poisoned
    IN  /\ lock = NoTask => InSync
        /\ \A t \in Tasks :
              /\ pc[t] \in {"add_assign", "list_clone", "del_len"} => InSync
              /\ pc[t] = "idle" => resp[t] = expect[t]

\* A create has advanced the counter and not yet pushed its record while a
\* list request is in flight.
C9_Witness ==
    \E t, u \in Tasks :
        /\ pc[t] = "add_push"
        /\ pc[u] = "list_lock"
        /\ NEXT_ID # serial.next

(* C10: the store's operations cannot fail: no add_user, list_users or     *)
(* delete_user request ends in a panic instead of a response.              *)
C10_NoHandlerFaults == \A t \in Tasks : resp[t].kind # "panic"

\* ---------------------------------------------------------------------------
\* C11
StorePcs == AddPcs \cup DelPcs \cup ListPcs

LockPcs == {"add_lock", "list_lock", "del_lock"}

\* Task t has finished its request and the client got an HTTP response.
Answered(t) == pc[t] = "idle" /\ resp[t].kind \in {"user", "users", "text", "error"}

\* The one lock is held only by a handler that is past its lock() and has
\* not returned yet.
OneLockHeldInside ==
    \A t \in Tasks : lock = t => pc[t] \in StorePcs \ LockPcs

\* C11: every request takes at most the one lock and gives it back before its
\* handler returns, and under fair scheduling every accepted create, list or
\* delete request eventually completes with a response.
C11_EveryStoreRequestIsAnswered ==
    /\ []OneLockHeldInside
    /\ \A t \in Tasks : (pc[t] \in StorePcs) ~> Answered(t)

\* ---------------------------------------------------------------------------
\* C12
\* C12: an id in the body of a create is ignored: the statement that numbers
\* the payload replaces whatever id the body carried by the counter value
\* and touches no other field, and the create returns that payload and
\* leaves the list as it was at its lock() plus that payload at the end, so
\* no record that was already there is updated or replaced.
C12_BodyIdIsIgnored ==
    [][\A t \in Tasks :
          /\ pc[t] = "add_assign" /\ pc'[t] = "add_incr" =>
                /\ local'[t].payload.id = pre[t].next
                /\ local'[t].payload.name = req[t].body.name
                /\ local'[t].payload.age = req[t].body.age
          /\ Returns(t, "add_ret") =>
                /\ resp'[t] = Response(200, "user", "",
                                       <<UserData(pre[t].next, req[t].body.name,
                                                  req[t].body.age)>>)
                /\ users' = Append(pre[t].users, resp'[t].json[1])]_vars

\* A create whose body names the id of a live record has returned a record
\* with another id, and the live record is still there unchanged.
C12_Witness ==
    \E t \in Tasks :
        /\ pc[t] = "idle" /\ resp[t].kind = "user"
        /\ "id" \in req[t].body.keys
        /\ resp[t].json[1].id # req[t].body.id
        /\ \E i \in 1..Len(users) :
              /\ users[i].id = req[t].body.id
              /\ users[i].name # req[t].body.name
        /\ \E i \in 1..Len(users) : users[i] = resp[t].json[1]

\* ---------------------------------------------------------------------------
\* C13
\* Task t takes a new request from the router in this step.
Accepts(t) ==
    /\ pc[t] = "idle"
    /\ \A u \in Tasks : u < t => pc[u] # "idle"
    /\ nreq' = nreq + 1

\* C13: list() is read-only and returns an independent snapshot: its return
\* leaves the record list and the counter as they were at its lock() and
\* answers with exactly that list, and the sequence it answered with stays
\* the same whatever creates and deletes complete afterwards.
C13_ListIsReadOnlySnapshot ==
    [][\A t \in Tasks :
          /\ Returns(t, "list_clone") =>
                /\ users' = pre[t].users /\ users' = users
                /\ NEXT_ID' = pre[t].next /\ NEXT_ID' = NEXT_ID
                /\ resp'[t] = Response(200, "users", "", pre[t].users)
          /\ resp[t].kind = "users" /\ ~Accepts(t) => resp'[t] = resp[t]]_vars

\* A list has answered with a non-empty sequence, and a create and a delete
\* that completed after it have since changed the live list.
C13_Witness ==
    \E t \in Tasks :
        /\ pc[t] = "idle" /\ resp[t].kind = "users"
        /\ resp[t].json # <<>> /\ users # <<>>
        /\ ~Present(users, resp[t].json[1].id)
        /\ ~Present(resp[t].json, users[1].id)

\* ---------------------------------------------------------------------------
\* C14
\* The body lacks one of the fields {name, age}.
MissingField(body) == ~({"name", "age"} \subseteq body.keys)

MaxText == <<"4", "2", "9", "4", "9", "6", "7", "2", "9", "5">>

\* The segment (written without sign or leading zeros) is not the decimal
\* text of an unsigned 32-bit integer.
NotAnId(seg) ==
    \/ seg = <<>>
    \/ \E i \in 1..Len(seg) : ~IsDigit(seg[i])
    \/ Len(seg) > Len(MaxText)
    \/ /\ Len(seg) = Len(MaxText)
       /\ \E i \in 1..Len(seg) :
             /\ DigitValue(seg[i]) > DigitValue(MaxText[i])
             /\ \A j \in 1..(i - 1) : seg[j] = MaxText[j]

Malformed(rq) ==
    \/ rq.route = "POST /users" /\ MissingField(rq.body)
    \/ rq.route = "DELETE /users/:id" /\ NotAnId(rq.seg)

\* C14: a request whose body does not decode into {name, age}, or whose path
\* id does not parse as an integer, is rejected before any handler runs: it
\* takes no lock, changes neither the record list nor the counter, and uses
\* up no id.
C14_MalformedNeverReachesStore ==
    [][\A t \in Tasks :
          Accepts(t) /\ Malformed(req'[t]) =>
              /\ pc'[t] = "idle" /\ resp'[t].kind = "rejected"
              /\ lock' = lock /\ poisoned' = poisoned
              /\ users' = users /\ NEXT_ID' = NEXT_ID
              /\ issued' = issued]_vars

\* A delete whose path id is one above u32::MAX has been rejected while a
\* create of another task is inside its critical section, between reading
\* the counter and incrementing it.
C14_Witness ==
    \E t, u \in Tasks :
        /\ pc[t] = "idle" /\ resp[t] = Rejected("path")
        /\ req[t].seg = <<"4", "2", "9", "4", "9", "6", "7", "2", "9", "6">>
        /\ lock = u /\ pc[u] = "add_incr"
        /\ NEXT_ID = local[u].payload.id

\* ---------------------------------------------------------------------------
\* C15
\* The statements that read or write NEXT_ID: `payload.id = NEXT_ID` and
\* `NEXT_ID += 1`.
CounterPcs == {"add_assign", "add_incr"}

\* C15: the id counter is read and written only while the store's lock is
\* held by the accessing handler: no two handlers are at an access of
\* NEXT_ID at the same time, and none is while another task holds the lock.
C15_CounterAccessedOnlyUnderLock ==
    /\ \A t \in Tasks : pc[t] \in CounterPcs => lock = t
    /\ \A t, u \in Tasks : pc[t] \in CounterPcs /\ pc[u] \in CounterPcs => t = u

\* One create is about to increment the counter while another create, a
\* list or a delete is waiting for the lock.
C15_Witness ==
    \E t, u \in Tasks :
        /\ t # u
        /\ pc[t] = "add_incr" /\ lock = t
        /\ pc[u] \in LockPcs

\* ---------------------------------------------------------------------------
\* C16
\* C16: whenever no handler is inside a critical section, the live records
\* appear in strictly increasing id order (so their ids are pairwise
\* distinct) and every live record's id is strictly less than the counter.
C16_LiveIdsIncreaseBelowCounter ==
    lock = NoTask =>
        /\ \A i, j \in 1..Len(users) : i < j => Less(users[i].id, users[j].id)
        /\ \A i \in 1..Len(users) : Less(users[i].id, NEXT_ID)

\* ---------------------------------------------------------------------------
\* C17
\* C17: whenever no operation is in progress, the number of live records is
\* the number of completed creates minus the number of deletes that
\* returned success, a delete that returns success has shortened the list by
\* exactly 1, and one that returns not-found by 0.
C17_LiveCountIsCreatesMinusDeletes ==
    /\ (\A t \in Tasks : pc[t] = "idle") =>
            Len(users) = Len(created) - Len(deleted)
    /\ \A t \in Tasks :
          pc[t] = "del_check" =>
              Len(users) = local[t].initial_len
                           - (IF Present(pre[t].users, local[t].id) THEN 1 ELSE 0)

\* ---------------------------------------------------------------------------
\* C18
\* C18: a delete reports success exactly when a record with its id was in
\* the list as its critical section began; one that reports not-found
\* leaves the list as it was, so a record with that id created afterwards
\* stays, and of two delete calls for the same id that overlap in time at
\* most one reports success.
C18_DeleteSucceedsIffPresentAtLock ==
    [][\A t \in Tasks :
          Returns(t, "del_check") =>
              /\ resp'[t].status = 200 <=> Present(pre[t].users, local[t].id)
              /\ resp'[t].status = 404 <=> ~Present(pre[t].users, local[t].id)
              /\ resp'[t].status = 404 => users' = pre[t].users
              /\ resp'[t].status = 200 => local[t].id \notin raced[t]]_vars

\* ---------------------------------------------------------------------------
\* C19
\* C19: a handler that faults while holding the store lock leaves the lock
\* poisoned; from then on the lock stays poisoned and free, the list and the
\* counter never change again, and every add_user, list_users and
\* delete_user request fails at its lock() instead of completing.
C19_PoisonedStoreNeverRecovers ==
    [][/\ \A t \in Tasks :
             lock = t /\ pc'[t] = "idle" /\ resp'[t] = Fault => poisoned'
       /\ poisoned =>
             /\ poisoned' /\ lock = NoTask
             /\ users' = users /\ NEXT_ID' = NEXT_ID
             /\ \A t \in Tasks :
                   /\ pc[t] \in StorePcs => pc[t] \in LockPcs
                   /\ pc[t] \in StorePcs /\ pc'[t] # pc[t] =>
                         pc'[t] = "idle" /\ resp'[t] = Fault]_vars

\* After the overflow fault of a create, a list and a delete have both
\* failed at the poisoned lock.
C19_Witness ==
    /\ poisoned
    /\ \E t, u \in Tasks :
          /\ pc[t] = "idle" /\ req[t].route = "GET /users" /\ resp[t] = Fault
          /\ pc[u] = "idle" /\ req[u].route = "DELETE /users/:id" /\ resp[u] = Fault

====
